---- MODULE Spec2Model ----
(***************************************************************************)
(* Model of dataprep/clean/clean_lat_long.py (and of the error path of     *)
(* dataprep/clean/clean_email.py).                                         *)
(*                                                                         *)
(* Texts are sequences of one-character strings.  Numbers are exact        *)
(* decimals in fixed point: a value is a record [w, f] that stands for     *)
(* w + f / Unit, 0 <= f < Unit, so that deg + min/60 + sec/3600 is exact   *)
(* for literals of at most five decimals.  Python's round() is modelled    *)
(* as round-half-to-even on that exact value; the values of Corpus are     *)
(* values on which the binary floats of the code give the same renderings  *)
(* (a text such as "40.3", whose "dms" rendering the floats turn into      *)
(* 40 17 60, is not among them).                                           *)
(*                                                                         *)
(* A frame is a sequence of at least one row with the column to clean and  *)
(* the columns that the call may add; the argument inplace, which only     *)
(* drops the input column afterwards, is left out.                         *)
(***************************************************************************)
EXTENDS Integers, Sequences, FiniteSets, TLC

\* ------------------------------------------------------------------------
\* Characters
\* ------------------------------------------------------------------------
DEGREE == "chr176"
PRIME == "chr8242"
DOUBLE_PRIME == "chr8243"
APOSTROPHE == "'"
QUOTE == "\""
TAB == "\t"
NEWLINE == "\n"

Digits == {"0", "1", "2", "3", "4", "5", "6", "7", "8", "9"}
DigitVal == [c \in Digits |->
               CASE c = "0" -> 0 [] c = "1" -> 1 [] c = "2" -> 2 [] c = "3" -> 3
                 [] c = "4" -> 4 [] c = "5" -> 5 [] c = "6" -> 6 [] c = "7" -> 7
                 [] c = "8" -> 8 [] c = "9" -> 9]
DigitChar == <<"0", "1", "2", "3", "4", "5", "6", "7", "8", "9">>
WhiteSpace == {" ", TAB, NEWLINE}
NSEW == {"N", "S", "E", "W"}

\* ------------------------------------------------------------------------
\* Regular expressions: a backtracking matcher with Python's priorities.
\* A path of the matcher ends in a match state [p, g]: the next position
\* and the groups captured so far.  Run yields the states in which the paths
\* of a node can end, in the order in which the backtracking engine of `re`
\* tries them; the match that `re` returns is the first path that succeeds.
\* ------------------------------------------------------------------------
Cls(S) == [op |-> "cls", set |-> S]
Cat(kids) == [op |-> "cat", kids |-> kids]
Opt(kid) == [op |-> "opt", kid |-> kid]
\* [S]* (greedy) and .*? (lazy)
Star(S) == [op |-> "star", set |-> S]
LazyStarAny == [op |-> "lazy"]
Plus(S) == Cat(<<Cls(S), Star(S)>>)
Group(name, kid) == [op |-> "grp", name |-> name, kid |-> kid]
EndOfString == [op |-> "end"]

GroupNames == {"dir_front", "deg", "min", "sec", "dir_back",
               "dir_front2", "deg2", "min2", "sec2", "dir_back2"}
\* a group that did not take part in the match is None; a captured group
\* is never empty here, so the empty text stands for None
None == <<>>
NoGroups == [n \in GroupNames |-> None]

\* the number of consecutive characters of s from position p that are in S
RunLength(s, p, S) ==
    LET ok == {k \in 0..(Len(s) + 1 - p) : \A i \in p..(p + k - 1) : s[i] \in S}
    IN  CHOOSE k \in ok : \A j \in ok : j <= k
\* the same for `.`: any character but a newline
RunLengthAny(s, p) ==
    LET ok == {k \in 0..(Len(s) + 1 - p) : \A i \in p..(p + k - 1) : s[i] # NEWLINE}
    IN  CHOOSE k \in ok : \A j \in ok : j <= k

\* ss[lo] \o ... \o ss[hi]
RECURSIVE Flatten(_, _, _)
Flatten(ss, lo, hi) ==
    IF lo > hi THEN <<>>
    ELSE IF lo = hi THEN ss[lo]
    ELSE LET mid == (lo + hi) \div 2
         IN  Flatten(ss, lo, mid) \o Flatten(ss, mid + 1, hi)

RECURSIVE Run(_, _, _)
RECURSIVE RunCat(_, _, _, _)
\* the paths of node from each of the states ms, in the order of ms
RunEach(node, s, ms) ==
    Flatten([k \in 1..Len(ms) |-> Run(node, s, ms[k])], 1, Len(ms))
RunCat(kids, i, s, ms) ==
    IF i > Len(kids) \/ ms = <<>> THEN ms
    ELSE RunCat(kids, i + 1, s, RunEach(kids[i], s, ms))
Run(node, s, m) ==
    CASE node.op = "cls" ->
           IF m.p <= Len(s) /\ s[m.p] \in node.set
           THEN <<[m EXCEPT !.p = @ + 1]>> ELSE <<>>
      [] node.op = "cat" -> RunCat(node.kids, 1, s, <<m>>)
      [] node.op = "opt" ->
           \* greedy: first with the optional part, then without it
           Run(node.kid, s, m) \o <<m>>
      [] node.op = "star" ->
           \* greedy: the longest run first, then one character less, ...
           LET k == RunLength(s, m.p, node.set)
           IN  [j \in 1..(k + 1) |-> [m EXCEPT !.p = @ + k + 1 - j]]
      [] node.op = "lazy" ->
           \* lazy: no character first, then one more, ...
           LET k == RunLengthAny(s, m.p)
           IN  [j \in 1..(k + 1) |-> [m EXCEPT !.p = @ + j - 1]]
      [] node.op = "grp" ->
           LET rs == Run(node.kid, s, m)
           IN  [j \in 1..Len(rs) |->
                  [rs[j] EXCEPT !.g[node.name] = SubSeq(s, m.p, rs[j].p - 1)]]
      [] node.op = "end" ->
           IF m.p = Len(s) + 1 \/ (m.p = Len(s) /\ s[m.p] = NEWLINE)
           THEN <<m>> ELSE <<>>

\* The first path through kids[i], kids[i + 1], ... from state m that reaches
\* the end of the pattern, <<>> if there is none: the alternatives of
\* kids[i] are tried in their order, and the next one only after every
\* path through the previous one has failed (backtracking).
RECURSIVE First(_, _, _, _)
RECURSIVE FirstOf(_, _, _, _, _)
First(kids, i, s, m) ==
    IF i > Len(kids) THEN <<m>>
    ELSE FirstOf(kids, i, s, Run(kids[i], s, m), 1)
FirstOf(kids, i, s, alts, k) ==
    IF k > Len(alts) THEN <<>>
    ELSE LET r == First(kids, i + 1, s, alts[k])
         IN  IF r # <<>> THEN r ELSE FirstOf(kids, i, s, alts, k + 1)

\* re.match(pattern, s): the groups of the first successful path, or None
re_match(pattern, s) ==
    LET rs == First(pattern.kids, 1, s, [p |-> 1, g |-> NoGroups])
    IN  IF rs = <<>> THEN None ELSE rs[1].g

\* re.sub(r"''", '"', s)
RECURSIVE re_sub(_)
re_sub(s) ==
    IF Len(s) < 2 THEN s
    ELSE IF s[1] = APOSTROPHE /\ s[2] = APOSTROPHE
         THEN <<QUOTE>> \o re_sub(SubSeq(s, 3, Len(s)))
         ELSE <<s[1]>> \o re_sub(Tail(s))

FLOAT == Cat(<<Plus(Digits), Opt(Cat(<<Cls({"."}), Plus(Digits)>>))>>)
Blanks == Star({" "})
\* one coordinate unit of PATTERN, with the names of its five groups
PatternUnit(dirf, deg, min, sec, dirb) ==
    << Opt(Group(dirf, Cls(NSEW))), Blanks,
       Group(deg, Cat(<<Opt(Cls({"-"})), FLOAT>>)),
       Opt(Cat(<< Cls({DEGREE, "D", "*"} \cup WhiteSpace), Blanks,
                  Opt(Cat(<<Group(min, FLOAT),
                            Opt(Cls({PRIME, APOSTROPHE, "m"})), Blanks>>)),
                  Opt(Cat(<<Group(sec, FLOAT),
                            Cls({DOUBLE_PRIME, QUOTE, "s"}), Blanks>>)) >>)),
       Opt(Group(dirb, Cls(NSEW))) >>
PATTERN ==
    Cat( <<LazyStarAny, Opt(Cls({"("}))>>
         \o PatternUnit("dir_front", "deg", "min", "sec", "dir_back")
         \o <<Opt(Cat( <<Star(WhiteSpace),
                         Cls({",", ";", "/"} \cup WhiteSpace),
                         Star(WhiteSpace)>>
                       \o PatternUnit("dir_front2", "deg2", "min2", "sec2",
                                      "dir_back2") )),
              Opt(Cls({")"})), Star(WhiteSpace), EndOfString>> )

\* ------------------------------------------------------------------------
\* Numbers.  A float is the exact decimal w + f / Unit with 0 <= f < Unit;
\* Unit is 3600 * 10^5, so that minutes / 60 and seconds / 3600 of literals
\* with at most five decimals are whole numbers of units.
\* ------------------------------------------------------------------------
Unit == 3600 * 100000
Pow10 == <<10, 100, 1000, 10000, 100000>>
Num(w, f) == [w |-> w + (f \div Unit), f |-> f % Unit]
Neg(x) == IF x.f = 0 THEN [w |-> 0 - x.w, f |-> 0]
          ELSE [w |-> 0 - x.w - 1, f |-> Unit - x.f]
Add(x, y) == Num(x.w + y.w, x.f + y.f)
Lt(x, y) == x.w < y.w \/ (x.w = y.w /\ x.f < y.f)
Le(x, y) == ~Lt(y, x)
Abs(x) == IF x.w < 0 THEN Neg(x) ELSE x
Whole(n) == [w |-> n, f |-> 0]
\* x / 60 and x / 3600 for x >= 0
Div60(x) == Num(0, x.w * (Unit \div 60) + x.f \div 60)
Div3600(x) == Num(0, x.w * (Unit \div 3600) + x.f \div 3600)

\* the value of a text of digits
RECURSIVE DigitsValue(_)
DigitsValue(ds) ==
    IF ds = <<>> THEN 0
    ELSE 10 * DigitsValue(SubSeq(ds, 1, Len(ds) - 1)) + DigitVal[ds[Len(ds)]]
\* float(text) for a text -?\d+(?:\.\d+)? (of at most five decimals)
float(text) ==
    LET neg  == text[1] = "-"
        body == IF neg THEN Tail(text) ELSE text
        dots == {i \in 1..Len(body) : body[i] = "."}
        dot  == IF dots = {} THEN Len(body) + 1 ELSE CHOOSE i \in dots : TRUE
        frac == SubSeq(body, dot + 1, Len(body))
        mag  == [w |-> DigitsValue(SubSeq(body, 1, dot - 1)),
                 f |-> IF frac = <<>> THEN 0
                       ELSE DigitsValue(frac) * (Unit \div Pow10[Len(frac)])]
    IN  IF neg THEN Neg(mag) ELSE mag

\* n / d rounded to the nearest whole number, ties to the even one
RoundHalfEven(n, d) ==
    LET q == n \div d
        r == n % d
    IN  IF 2 * r > d \/ (2 * r = d /\ q % 2 = 1) THEN q + 1 ELSE q

\* A float that round(., 4) returned: sign and magnitude u / 10^4 (the sign
\* is kept apart because -1 * 0.0 is -0.0, which prints as "-0.0")
Places == 4
Float4(neg, u) == [t |-> "float", neg |-> neg, u |-> u]
\* round(fctr * x, 4) for x >= 0 and fctr in {-1, 1}
round4(fctr, x) ==
    Float4(fctr < 0, x.w * Pow10[Places] + RoundHalfEven(x.f, Unit \div Pow10[Places]))
\* float.is_integer
is_integer(v) == v.u % Pow10[Places] = 0

\* str(n) of an int n >= 0
RECURSIVE IntStr(_)
IntStr(n) == IF n < 10 THEN <<DigitChar[n + 1]>>
             ELSE IntStr(n \div 10) \o <<DigitChar[(n % 10) + 1]>>
\* the decimals of u / 10^4, without trailing zeros but at least one
FracStr(u) ==
    LET r == u % Pow10[Places]
        d == <<DigitChar[(r \div 1000) + 1], DigitChar[((r \div 100) % 10) + 1],
               DigitChar[((r \div 10) % 10) + 1], DigitChar[(r % 10) + 1]>>
        keep == {k \in 1..Places : \A i \in (k + 1)..Places : d[i] = "0"}
    IN  SubSeq(d, 1, CHOOSE k \in keep : \A j \in keep : k <= j)
\* a text of the float that loses its sign
FloatStr_unsigned(v) ==
    IntStr(v.u \div Pow10[Places]) \o <<".">> \o FracStr(v.u)
\* str(v) / repr(v) of a float v
FloatStr(v) ==
    (IF v.neg THEN <<"-">> ELSE <<>>) \o IntStr(v.u \div Pow10[Places])
      \o <<".">> \o FracStr(v.u)
\* f"{v}" after `v = int(v) if v.is_integer() else v`
IntOrFloatStr(v) ==
    IF is_integer(v) THEN IntStr(v.u \div Pow10[Places]) ELSE FloatStr(v)

\* ------------------------------------------------------------------------
\* Values of a cell: a str, a float, a tuple of two floats, a NaN object,
\* or (for an output column the row does not have) Absent.
\* ------------------------------------------------------------------------
Str(s) == [t |-> "str", s |-> s]
Tuple(a, b) == [t |-> "tuple", a |-> a, b |-> b]
\* NaN objects are told apart by identity: np.nan is one object
NaN(obj) == [t |-> "nan", obj |-> obj]
np_nan == NaN("np.nan")
Absent == [t |-> "absent"]

\* str(value)
str(v) ==
    CASE v.t = "str" -> v.s
      [] v.t = "float" -> FloatStr(v)
      [] v.t = "tuple" -> <<"(">> \o FloatStr(v.a) \o <<",", " ">> \o FloatStr(v.b) \o <<")">>
      [] v.t = "nan" -> <<"n", "a", "n">>

\* a == b in Python
FloatEq(a, b) == a.u = b.u /\ (a.neg = b.neg \/ a.u = 0)
PyEq(a, b) ==
    CASE a.t # b.t -> FALSE
      [] a.t = "str" -> a.s = b.s
      [] a.t = "float" -> FloatEq(a, b)
      [] a.t = "tuple" -> FloatEq(a.a, b.a) /\ FloatEq(a.b, b.b)
      [] a.t = "nan" -> FALSE

\* ------------------------------------------------------------------------
\* clean_lat_long.py
\* ------------------------------------------------------------------------
NullStrings ==
    { <<"#", "N", "/", "A">>,
      <<"#", "N", "/", "A", " ", "N", "/", "A">>,
      <<"#", "N", "A">>,
      <<"-", "1", ".", "#", "I", "N", "D">>,
      <<"-", "1", ".", "#", "Q", "N", "A", "N">>,
      <<"-", "N", "a", "N">>,
      <<"-", "n", "a", "n">>,
      <<"1", ".", "#", "I", "N", "D">>,
      <<"1", ".", "#", "Q", "N", "A", "N">>,
      <<"<", "N", "A", ">">>,
      <<"N", "/", "A">>,
      <<"N", "A">>,
      <<"N", "U", "L", "L">>,
      <<"N", "a", "N">>,
      <<"n", "/", "a">>,
      <<"n", "a", "n">>,
      <<"n", "u", "l", "l">>,
      <<>> }
\* `value in NULL_VALUES`: a str by equality; a NaN only if it is the object
\* np.nan itself (NaN == NaN is false, so the set finds a NaN by identity,
\* and no value can be the set's anonymous float("NaN")); a float or a
\* tuple equals none of the members
NULL_VALUES(v) ==
    CASE v.t = "str" -> v.s \in NullStrings
      [] v.t = "nan" -> v.obj = "np.nan"
      [] OTHER -> FALSE

\* a bound of the latitude that is one degree too wide
LatMaxLoose == 90 + 1
LatMax == 90
\* a bound of the longitude that is one degree too wide
LongMaxLoose == 180 + 1
LongMax == 180
\* a bound of the minutes and seconds that is one too wide
MinSecMaxLoose == 60 + 1
MinSecMax == 60
N == <<"N">>
S == <<"S">>
E == <<"E">>
W == <<"W">>

\* the local variables of format_lat_long that the properties refer to
Frame(flow, mch, dds, hem, dds2, hem2) ==
    [flow |-> flow, mch |-> mch, dds |-> dds, hem |-> hem, dds2 |-> dds2, hem2 |-> hem2]
NoFrame == Frame("none", NoGroups, Whole(0), None, Whole(0), None)

\* what one call on a row does: the row it returns, the counter of STATS it
\* increments ("none": no counter), whether it raised, and its locals
Result(row, inc, raised, frame) ==
    [row |-> row, inc |-> inc, raised |-> raised, frame |-> frame]

\* a rejection that raises instead of returning the row
not_lat_long_raises(row, split, errtype, frame) ==
    Result(row, errtype, TRUE, frame)
not_lat_long(row, split, errtype, frame) ==
    Result(IF split THEN [row EXCEPT !.latitude = np_nan, !.longitude = np_nan]
           ELSE [row EXCEPT !.clean = np_nan],
           errtype, FALSE, frame)

\* k * (n / Unit) for a fraction of n units and k in {60, 3600}
FracTimes(n, k) == [w |-> n \div (Unit \div k), f |-> (n % (Unit \div k)) * k]
\* the renderings of a magnitude dds >= 0 with hemisphere hem
\* a rendering that loses the sign of the southern and western hemispheres
render_dd_unsigned(dds, southwest) == round4(1, dds)
render_dd(dds, southwest) == round4(IF southwest THEN -1 ELSE 1, dds)
\* a rendering with the hemisphere letter in front
render_ddh_letter_first(dds, hem) == hem \o <<" ">> \o FloatStr(round4(1, dds)) \o <<DEGREE>>
render_ddh(dds, hem) == FloatStr(round4(1, dds)) \o <<DEGREE, " ">> \o hem
render_dm(dds, hem) ==
    LET mins == round4(1, FracTimes(dds.f, 60))
    IN  IntStr(dds.w) \o <<DEGREE, " ">> \o IntOrFloatStr(mins) \o <<PRIME, " ">> \o hem
render_dms(dds, hem) ==
    LET mins == FracTimes(dds.f, 60).w
        secs == round4(1, Add(FracTimes(dds.f, 3600), Neg(Whole(60 * mins))))
    IN  IntStr(dds.w) \o <<DEGREE, " ">> \o IntStr(mins) \o <<PRIME, " ">>
          \o IntOrFloatStr(secs) \o <<DOUBLE_PRIME, " ">> \o hem

\* a check that lets a hemisphere letter stand with a negative degree or
\* with a second letter
invalid_group_no_conflict(mins, secs, hem, letters, deg, dir_front, dir_back) ==
    \/ ~(Le(Whole(0), mins) /\ Lt(mins, Whole(MinSecMax)))
    \/ ~(Le(Whole(0), secs) /\ Lt(secs, Whole(MinSecMax)))
    \/ hem # None /\ hem \notin letters
\* lines 174-181 and 234-244: the minutes and the seconds of a group are in
\* [0, 60), its hemisphere is one of letters, stands with no negative degree
\* and is not given before and after the coordinate
invalid_group(mins, secs, hem, letters, deg, dir_front, dir_back) ==
    \/ ~(Le(Whole(0), mins) /\ Lt(mins, Whole(MinSecMax)))
    \/ ~(Le(Whole(0), secs) /\ Lt(secs, Whole(MinSecMax)))
    \/ hem # None /\ (hem \notin letters \/ Lt(float(deg), Whole(0)))
    \/ dir_back # None /\ dir_front # None

\* lines 184-218: one coordinate group
format_single(row, output_format, split, hor_coord, mch, dds0, hem0) ==
    LET hem == IF hem0 # None THEN hem0
               ELSE IF hor_coord = "lat" THEN (IF Le(Whole(0), dds0) THEN N ELSE S)
               ELSE IF hor_coord = "long" THEN (IF Le(Whole(0), dds0) THEN E ELSE W)
               ELSE hem0
        dds == Abs(dds0)
        frame == Frame("single", mch, dds, hem, Whole(0), None)
    IN  IF \/ hor_coord = "lat" /\ (Lt(Whole(LatMax), dds) \/ hem \notin {N, S})
           \/ hor_coord = "long" /\ (Lt(Whole(LongMax), dds) \/ hem \notin {E, W})
        THEN not_lat_long(row, split, "unknown", frame)
        ELSE
        LET dd == IF output_format = "dd"
                  THEN render_dd(dds, hem \in {S, W}) ELSE row.clean
            clean == CASE output_format = "ddh" -> Str(render_ddh(dds, hem))
                       [] output_format = "dm" -> Str(render_dm(dds, hem))
                       [] output_format = "dms" -> Str(render_dms(dds, hem))
                       [] OTHER -> dd
        IN  IF clean = Absent
            THEN Result(row, "none", TRUE, frame)  \* KeyError at line 217
            ELSE Result([row EXCEPT !.clean = clean],
                        IF ~PyEq(row.col, clean) THEN "cleaned" ELSE "none",
                        FALSE, frame)

\* lines 220-287: two coordinate groups
format_pair(row, output_format, split, mch, dds0, hem0) ==
    LET mins2 == IF mch.min2 # None THEN float(mch.min2) ELSE Whole(0)
        secs2 == IF mch.sec2 # None THEN float(mch.sec2) ELSE Whole(0)
        dds20 == Add(Add(float(mch.deg2), Div60(mins2)), Div3600(secs2))
        hem20 == IF mch.dir_back2 # None THEN mch.dir_back2 ELSE mch.dir_front2
    IN  IF \/ invalid_group(mins2, secs2, hem20, {E, W}, mch.deg2, mch.dir_front2, mch.dir_back2)
           \/ hem0 # None /\ hem0 \notin {N, S}
           \/ ~(Le(Whole(0 - LatMax), dds0) /\ Le(dds0, Whole(LatMax)))
           \/ ~(Le(Whole(0 - LongMax), dds20) /\ Le(dds20, Whole(LongMax)))
        THEN not_lat_long(row, split, "unknown",
                          Frame("pair", mch, dds0, hem0, dds20, hem20))
        ELSE
        LET hem  == IF hem0 # None THEN hem0
                    ELSE IF Le(Whole(0), dds0) THEN N ELSE S
            hem2 == IF hem20 # None THEN hem20
                    ELSE IF Le(Whole(0), dds20) THEN E ELSE W
            dds  == Abs(dds0)
            dds2 == Abs(dds20)
            frame == Frame("pair", mch, dds, hem, dds2, hem2)
        IN  IF Lt(Whole(LatMax), dds) \/ Lt(Whole(LongMax), dds2)
            THEN not_lat_long(row, split, "unknown", frame)
            ELSE
            LET lat == CASE output_format = "dd" -> render_dd(dds, hem = S)
                         [] output_format = "ddh" -> Str(render_ddh(dds, hem))
                         [] output_format = "dm" -> Str(render_dm(dds, hem))
                         [] output_format = "dms" -> Str(render_dms(dds, hem))
                         [] OTHER -> Absent
                lon == CASE output_format = "dd" -> render_dd(dds2, hem2 = W)
                         [] output_format = "ddh" -> Str(render_ddh(dds2, hem2))
                         [] output_format = "dm" -> Str(render_dm(dds2, hem2))
                         [] output_format = "dms" -> Str(render_dms(dds2, hem2))
                         [] OTHER -> Absent
                clean == IF output_format = "dd" THEN Tuple(lat, lon)
                         ELSE Str(lat.s \o <<",", " ">> \o lon.s)
            IN  IF lat = Absent
                THEN Result(row, "none", TRUE, frame)  \* UnboundLocalError
                ELSE IF split
                THEN Result([row EXCEPT !.latitude = lat, !.longitude = lon],
                            "cleaned", FALSE, frame)
                ELSE Result([row EXCEPT !.clean = clean],
                            IF ~PyEq(row.col, clean) THEN "cleaned" ELSE "none",
                            FALSE, frame)

\* a flow that takes a pair for a single coordinate when the axis is "long"
format_matched_by_axis(row, output_format, split, hor_coord, mch) ==
        IF mch = None \/ mch.deg = None
        THEN not_lat_long(row, split, "unknown",
                          Frame("nomatch", NoGroups, Whole(0), None, Whole(0), None))
        ELSE
        LET mins == IF mch.min # None THEN float(mch.min) ELSE Whole(0)
            secs == IF mch.sec # None THEN float(mch.sec) ELSE Whole(0)
            dds  == Add(Add(float(mch.deg), Div60(mins)), Div3600(secs))
            hem  == IF mch.dir_back # None THEN mch.dir_back ELSE mch.dir_front
        IN  IF invalid_group(mins, secs, hem, {N, S, E, W}, mch.deg, mch.dir_front, mch.dir_back)
            THEN not_lat_long(row, split, "unknown",
                              Frame(IF mch.deg2 = None THEN "single" ELSE "pair",
                                    mch, dds, hem, Whole(0), None))
            ELSE IF mch.deg2 = None
                 THEN format_single(row, output_format, split, hor_coord, mch, dds, hem)
                 ELSE IF hor_coord = "long"
                      THEN format_single(row, output_format, split, hor_coord, mch, dds, hem)
                      ELSE format_pair(row, output_format, split, mch, dds, hem)
\* lines 161-288: format_lat_long from the match mch of PATTERN on
format_matched(row, output_format, split, hor_coord, mch) ==
        IF mch = None \/ mch.deg = None
        THEN not_lat_long(row, split, "unknown",
                          Frame("nomatch", NoGroups, Whole(0), None, Whole(0), None))
        ELSE
        LET mins == IF mch.min # None THEN float(mch.min) ELSE Whole(0)
            secs == IF mch.sec # None THEN float(mch.sec) ELSE Whole(0)
            dds  == Add(Add(float(mch.deg), Div60(mins)), Div3600(secs))
            hem  == IF mch.dir_back # None THEN mch.dir_back ELSE mch.dir_front
        IN  IF invalid_group(mins, secs, hem, {N, S, E, W}, mch.deg, mch.dir_front, mch.dir_back)
            THEN not_lat_long(row, split, "unknown",
                              Frame(IF mch.deg2 = None THEN "single" ELSE "pair",
                                    mch, dds, hem, Whole(0), None))
            ELSE IF mch.deg2 = None
                 THEN format_single(row, output_format, split, hor_coord, mch, dds, hem)
                 ELSE format_pair(row, output_format, split, mch, dds, hem)

format_lat_long(row, output_format, split, hor_coord) ==
    IF NULL_VALUES(row.col)
    THEN not_lat_long(row, split, "null", Frame("null", NoGroups, Whole(0), None, Whole(0), None))
    ELSE format_matched(row, output_format, split, hor_coord,
                        re_match(PATTERN, re_sub(str(row.col))))

\* lines 304-365: check_lat_long from the match mch of PATTERN on
check_matched(val, hor_coord, mch) ==
        IF mch = None \/ mch.deg = None THEN FALSE
        ELSE
        LET mins == IF mch.min # None THEN float(mch.min) ELSE Whole(0)
            secs == IF mch.sec # None THEN float(mch.sec) ELSE Whole(0)
            dds  == Add(Add(float(mch.deg), Div60(mins)), Div3600(secs))
            hem0 == IF mch.dir_back # None THEN mch.dir_back ELSE mch.dir_front
        IN  IF invalid_group(mins, secs, hem0, {N, S, E, W}, mch.deg, mch.dir_front, mch.dir_back)
            THEN FALSE
            ELSE IF mch.deg2 = None
            THEN
              LET hem == IF hem0 # None THEN hem0
                         ELSE IF hor_coord = "lat" THEN (IF Le(Whole(0), dds) THEN N ELSE S)
                         ELSE IF hor_coord = "long" THEN (IF Le(Whole(0), dds) THEN E ELSE W)
                         ELSE hem0
                  inLat  == Le(Whole(0 - LatMax), dds) /\ Le(dds, Whole(LatMax))
                  inLong == Le(Whole(0 - LongMax), dds) /\ Le(dds, Whole(LongMax))
              IN  ~ \/ hor_coord = "lat" /\ (~inLat \/ hem \notin {N, S})
                    \/ hor_coord = "long" /\ (~inLong \/ hem \notin {E, W})
            ELSE
              LET mins2 == IF mch.min2 # None THEN float(mch.min2) ELSE Whole(0)
                  secs2 == IF mch.sec2 # None THEN float(mch.sec2) ELSE Whole(0)
                  dds2  == Add(Add(float(mch.deg2), Div60(mins2)), Div3600(secs2))
                  hem2  == IF mch.dir_back2 # None THEN mch.dir_back2 ELSE mch.dir_front2
              IN  ~ \/ invalid_group(mins2, secs2, hem2, {E, W}, mch.deg2, mch.dir_front2, mch.dir_back2)
                    \/ hem0 # None /\ hem0 \notin {N, S}
                    \/ ~(Le(Whole(0 - LatMax), dds) /\ Le(dds, Whole(LatMax)))
                    \/ ~(Le(Whole(0 - LongMax), dds2) /\ Le(dds2, Whole(LongMax)))

\* a validation that takes the null values for valid
check_lat_long_of_null(val, hor_coord) ==
    IF NULL_VALUES(val) THEN TRUE
    ELSE check_matched(val, hor_coord, re_match(PATTERN, re_sub(str(val))))
check_lat_long(val, hor_coord) ==
    IF NULL_VALUES(val) THEN FALSE
    ELSE check_matched(val, hor_coord, re_match(PATTERN, re_sub(str(val))))

\* ------------------------------------------------------------------------
\* Inputs
\* ------------------------------------------------------------------------
MaxRows == 2
Workers == 2

\* decimal degrees, with or without a sign and hemisphere letters
DegreeTexts ==
    { <<"0">>,
      <<"0", ".", "0", "0", "0", "0", "1">>,
      <<"4", "0", ".", "7", "1", "2", "8">>,
      <<"9", "0">>,
      <<"9", "0", ".", "0", "0", "0", "1">>,
      <<"1", "8", "0">>,
      <<"1", "8", "0", ".", "0", "0", "0", "1">> }
FrontTexts ==
    { <<>>,
      <<"N">>,
      <<"W", " ">> }
BackTexts ==
    { <<>>,
      <<" ", "N">>,
      <<"S">>,
      <<" ", "E">>,
      <<"W">> }
DecimalTexts ==
    {d \o b : d \in DegreeTexts, b \in BackTexts}
      \cup {<<"-">> \o d : d \in DegreeTexts}
      \cup {<<"-", "4", "0">> \o b : b \in BackTexts}
      \cup {f \o d \o b :
               f \in FrontTexts \ {<<>>}, d \in {<<"4", "0">>, <<"9", "0", ".", "0", "0", "0", "1">>},
               b \in BackTexts}
\* degrees with minutes and seconds
WholeDegreeTexts ==
    { <<"0">>,
      <<"4", "0">>,
      <<"9", "0">> }
MinSecTexts ==
    { <<DEGREE, " ", "3", "0", PRIME>>,
      <<DEGREE, " ", "3", "0", PRIME, " ", "1", "5", ".", "5", DOUBLE_PRIME>>,
      <<" ", "3", "0">>,
      <<DEGREE, " ", "5", "9", PRIME, " ", "5", "9", ".", "9", "9", "9", "9", "6", DOUBLE_PRIME>>,
      <<DEGREE, " ", "5", "9", ".", "9", "9", "9", "9", "6", PRIME>>,
      <<DEGREE, " ", "6", "0", PRIME>>,
      <<DEGREE, " ", "3", "0", PRIME, " ", "6", "0", DOUBLE_PRIME>>,
      <<"D", "3", "0", "m", "1", "5", "s">>,
      <<"*", "3", "0", APOSTROPHE, "1", "5", APOSTROPHE, APOSTROPHE>>,
      <<DEGREE, " ", "0", PRIME, " ", "0", DOUBLE_PRIME>> }
HemTexts ==
    { <<>>,
      <<" ", "N">>,
      <<"W">> }
MinSecDegreeTexts ==
    {d \o ms \o h : d \in WholeDegreeTexts, ms \in MinSecTexts, h \in HemTexts}
      \cup {<<"-", "4", "0">> \o ms : ms \in MinSecTexts}
\* two coordinates
FirstTexts ==
    { <<"4", "0", ".", "7", "1", "2", "8", " ", "N">>,
      <<"4", "0", ".", "7", "1", "2", "8">>,
      <<"-", "4", "0", ".", "7", "1", "2", "8">>,
      <<"N", " ", "4", "0">>,
      <<"9", "1">>,
      <<"4", "0", " ", "E">>,
      <<"-", "4", "0", " ", "S">>,
      <<"9", "0">>,
      <<"4", "0", DEGREE, " ", "4", "2", PRIME, " ", "4", "6", ".", "0", "8", DOUBLE_PRIME, " ", "N">>,
      <<"S", "4", "0", "N">> }
DelimiterTexts ==
    { <<",">>,
      <<";">>,
      <<"/">>,
      <<" ">> }
SecondTexts ==
    { <<"7", "4", ".", "0", "0", "6", "0", " ", "W">>,
      <<"-", "7", "4", ".", "0", "0", "6">>,
      <<"7", "4", ".", "0", "0", "6", "0">>,
      <<"1", "8", "1">>,
      <<"7", "4", " ", "N">>,
      <<"-", "7", "4", " ", "W">>,
      <<"7", "4", DEGREE, " ", "0", PRIME, " ", "2", "1", ".", "6", DOUBLE_PRIME, " ", "W">>,
      <<"E", " ", "7", "4", " ", "W">>,
      <<"1", "8", "0">>,
      <<"1", "8", "0", ".", "0", "0", "0", "1", " ", "E">> }
PairTexts ==
    {a \o <<",", " ">> \o b :
       a \in {<<"4", "0", ".", "7", "1", "2", "8", " ", "N">>, <<"-", "4", "0", ".", "7", "1", "2", "8">>,
              <<"4", "0", DEGREE, " ", "4", "2", PRIME, " ", "4", "6", ".", "0", "8", DOUBLE_PRIME, " ", "N">>},
       b \in SecondTexts}
      \cup {a \o <<",", " ">> \o b :
               a \in FirstTexts,
               b \in {<<"7", "4", ".", "0", "0", "6", "0", " ", "W">>, <<"-", "7", "4", ".", "0", "0", "6">>}}
      \cup {a \o d \o b :
               a \in {<<"4", "0", ".", "7", "1", "2", "8", " ", "N">>, <<"4", "0", ".", "7", "1", "2", "8">>},
               d \in DelimiterTexts,
               b \in {<<"7", "4", ".", "0", "0", "6", "0", " ", "W">>, <<"7", "4", ".", "0", "0", "6", "0">>}}
      \cup {<<"(">> \o a \o <<",", " ">> \o b \o <<")">> :
              a \in {<<"4", "0", ".", "7", "1", "2", "8">>, <<"-", "4", "0", ".", "7", "1", "2", "8">>}, b \in {<<"-", "7", "4", ".", "0", "0", "6">>, <<"7", "4", ".", "0", "0", "6", "0">>}}
\* two coordinates with minutes and seconds
MinSecPairTexts ==
    { <<"4", "0", DEGREE, " ", "3", "0", PRIME, " ", "N", ",", " ",
        "7", "4", DEGREE, " ", "3", "0", PRIME, " ", "W">>,
      <<"-", "4", "0", DEGREE, " ", "3", "0", PRIME, ",", " ",
        "-", "7", "4", DEGREE, " ", "3", "0", PRIME>>,
      <<"4", "0", DEGREE, " ", "6", "0", PRIME, " ", "N", ",", " ", "7", "4", " ", "W">>,
      <<"4", "0", ".", "7", "1", "2", "8", " ", "N", ",", " ",
        "7", "4", DEGREE, " ", "6", "0", PRIME, " ", "W">>,
      <<"4", "0", ".", "7", "1", "2", "8", " ", "N", ",", " ",
        "7", "4", DEGREE, " ", "3", "0", PRIME, " ", "6", "0", DOUBLE_PRIME, " ", "W">> }
\* texts that are no coordinate, or a coordinate with text around it
OtherTexts ==
    { <<"n", "o", "t", " ", "a", " ", "c", "o", "o", "r", "d", "i", "n", "a", "t", "e">>,
      <<"a", "b", "c", " ", "4", "0", " ", "N">>,
      <<"4", "0", " ", "N", " ", "a", "b", "c">>,
      <<"4", "0", " ", "N", " ", "3", "0", " ", "S">>,
      <<"N">>,
      <<"4", "0", ",">>,
      <<"4", "0", ".", "7", "1", "2", "8", " ", "N", ",", " ", "7", "4", ".", "0", "0", "6", "0", " ", "W", ",", " ", "5">>,
      <<"4", "0", " ", "N", NEWLINE>>,
      <<" ", "4", "0", " ", "N", " ">>,
      <<"-", "0", " ", "S">>,
      <<"4", "0", " ", "3", "0", " ", "N", " ", "7", "4", " ", "3", "0", " ", "W">> }
\* values that are no str: floats of at most four decimals, tuples, NaN
FloatValues ==
    {[t |-> "float", neg |-> neg, u |-> u] :
       neg \in BOOLEAN, u \in {0, 407128, 900000, 900001, 1800000}}
TupleValues ==
    { Tuple([t |-> "float", neg |-> FALSE, u |-> 407128],
            [t |-> "float", neg |-> TRUE, u |-> 740060]),
      Tuple([t |-> "float", neg |-> FALSE, u |-> 900001],
            [t |-> "float", neg |-> FALSE, u |-> 0]) }
Corpus ==
    {Str(s) : s \in NullStrings \cup DecimalTexts \cup MinSecDegreeTexts
                      \cup PairTexts \cup MinSecPairTexts \cup OtherTexts}
      \cup FloatValues \cup TupleValues \cup {np_nan, NaN("other")}
\* the values of the frames of more than one row
Sample ==
    { Str(<<"N", "A">>),
      Str(<<"n", "o", "t", " ", "a", " ", "c", "o", "o", "r", "d", "i", "n", "a", "t", "e">>),
      Str(<<"4", "0", ".", "7", "1", "2", "8", " ", "N">>),
      Str(<<"4", "0", ".", "7", "1", "2", "8", " ", "N", ",", " ", "7", "4", ".", "0", "0", "6", "0", " ", "W">>) }

OutputFormats == {"dd", "ddh", "dm", "dms"}
HorCoords == {"lat", "long"}
Args == [output_format : OutputFormats, split : BOOLEAN, hor_coord : HorCoords]

\* a row of the frame: the column to clean and the three columns that
\* format_lat_long may add
NewRow(v) == [col |-> v, clean |-> Absent, latitude |-> Absent, longitude |-> Absent]
SingleRowFrames == {<<NewRow(v)>> : v \in Corpus}
SampleFrames ==
    UNION {[1..n -> {NewRow(v) : v \in Sample}] : n \in 1..MaxRows}
IsSample(d) == \A j \in 1..Len(d) : d[j].col \in Sample
\* the frames of a call that follows another call
NextFrames == {<<NewRow(v)>> : v \in Sample}

\* ------------------------------------------------------------------------
\* clean_email.py: the part of format_email that texts without "@" reach
\* ------------------------------------------------------------------------
EmailNULL_VALUES(v) ==
    IF v.t = "str" THEN v.s \in NullStrings \cup {<<"N", "o", "n", "e">>}
    ELSE v.t = "nan" /\ v.obj = "np.nan"

EmailNone == Str(<<"N", "o", "n", "e">>)
NewEmailRow(v) == [col |-> v, clean |-> Absent, username |-> Absent, domain |-> Absent]

\* an error path that knows "coerce" only
not_email_coerce(row, split, errtype, processtype) ==
    [row |-> IF split THEN [row EXCEPT !.username = EmailNone, !.domain = EmailNone]
             ELSE [row EXCEPT !.clean = EmailNone],
     inc |-> errtype]
not_email(row, split, errtype, processtype) ==
    CASE processtype = "coerce" ->
           [row |-> IF split THEN [row EXCEPT !.username = EmailNone, !.domain = EmailNone]
                    ELSE [row EXCEPT !.clean = EmailNone],
            inc |-> errtype]
      [] processtype = "ignore" ->
           [row |-> IF split THEN [row EXCEPT !.username = row.col, !.domain = EmailNone]
                    ELSE [row EXCEPT !.clean = row.col],
            inc |-> errtype]
      [] OTHER -> [row |-> row, inc |-> "none"]

\* lines 212-216; the texts of EmailInputs hold no "@"
format_email(row, split, error) ==
    CASE EmailNULL_VALUES(row.col) -> not_email(row, split, "null", error)
      [] ~EmailNULL_VALUES(row.col) /\ (\A k \in 1..Len(row.col.s) : row.col.s[k] # "@") ->
           not_email(row, split, "unknown", error)

EmailInputs == Sample \cup {EmailNone, np_nan}
Policies == {"coerce", "ignore"}

\* ------------------------------------------------------------------------
\* State
\* ------------------------------------------------------------------------
VARIABLES
    pc,      \* where the caller is: "idle", in df.apply ("apply": row after
             \* row, "par": rows on parallel workers), or back from the
             \* call ("done", "email")
    args,    \* the arguments output_format, split and hor_coord
    df,      \* the rows of the frame
    STATS,   \* the module's global counters
    i,       \* the number of rows that df.apply has gone through
    frame,   \* the locals of the last call of format_lat_long
    raised,  \* an exception left format_lat_long
    outcome, \* per row that is through: "Cleaned", "Null" or "Unparseable"
    task,    \* parallel apply: per row "todo", "loaded" or "done", with the
             \* counter to increment and the value read from it
    valid,   \* the result of validate_lat_long on the column, <<>> before
    prev,    \* the previous call: its output and locals (a call on its
             \* output follows), or its row, outcome and validation (a call
             \* with the other axis follows)
    email    \* the last call of clean_email: its arguments, row and STATS
vars == <<pc, args, df, STATS, i, frame, raised, outcome, task, valid, prev, email>>

ZeroStats == [cleaned |-> 0, null |-> 0, unknown |-> 0]
NoPrev == [out |-> Absent, frame |-> NoFrame, again |-> FALSE, axis |-> FALSE,
           row |-> NewRow(Absent), outcome |-> <<>>, valid |-> <<>>]
NoEmail == [error |-> "coerce", split |-> FALSE, row |-> NewEmailRow(Absent), STATS |-> ZeroStats]

Init ==
    /\ pc = "idle"
    /\ args = [output_format |-> "dd", split |-> FALSE, hor_coord |-> "lat"]
    /\ df = <<>>
    /\ STATS = ZeroStats
    /\ i = 0
    /\ frame = NoFrame
    /\ raised = FALSE
    /\ outcome = <<>>
    /\ task = <<>>
    /\ valid = <<>>
    /\ prev = NoPrev
    /\ email = NoEmail

\* STATS[name] += 1
Increment(stats, name) ==
    IF name = "none" THEN stats ELSE [stats EXCEPT ![name] = @ + 1]

\* a reset that leaves the counter "cleaned" as it is
reset_stats_partial == [STATS EXCEPT !.null = 0, !.unknown = 0]
\* reset_stats()
reset_stats == ZeroStats

\* the outcome of a call of format_lat_long: not_lat_long with "null" or
\* "unknown", or the return of the cleaned row
Outcome(r) ==
    CASE r.raised -> "Raised"
      [] ~r.raised /\ r.inc = "null" -> "Null"
      [] ~r.raised /\ r.inc = "unknown" -> "Unparseable"
      [] OTHER -> "Cleaned"

\* clean_lat_long up to df.apply: reset_stats() and the new frame
Call(a, d) ==
    /\ args' = a
    /\ df' = d
    /\ STATS' = reset_stats
    /\ i' = 0
    /\ frame' = NoFrame
    /\ raised' = FALSE
    /\ outcome' = <<>>
    /\ valid' = <<>>

\* clean_lat_long(df, column, output_format, split, hor_coord) is called
clean_lat_long ==
    /\ \/ pc = "idle"
       \/ pc = "done" /\ IsSample(df)
    /\ \E a \in Args :
       \E d \in IF pc = "idle" THEN SingleRowFrames \cup SampleFrames ELSE NextFrames :
           Call(a, d)
    /\ pc' = "apply"
    /\ prev' = NoPrev
    /\ UNCHANGED <<task, email>>

\* clean_lat_long is called again on the column that the previous call made
CleanAgain ==
    /\ pc = "done"
    /\ Len(df) = 1
    /\ df[1].clean \notin {Absent, np_nan}
    /\ Call(args, <<NewRow(df[1].clean)>>)
    /\ pc' = "apply"
    /\ prev' = [NoPrev EXCEPT !.out = df[1].clean, !.frame = frame, !.again = TRUE]
    /\ UNCHANGED <<task, email>>

\* clean_lat_long is called again on the same column with the other axis
OtherAxis ==
    /\ pc = "done"
    /\ Len(df) = 1
    /\ valid # <<>>
    /\ ~prev.again /\ ~prev.axis
    /\ Call([args EXCEPT !.hor_coord = IF @ = "lat" THEN "long" ELSE "lat"],
            <<NewRow(df[1].col)>>)
    /\ pc' = "apply"
    /\ prev' = [NoPrev EXCEPT !.axis = TRUE, !.frame = frame, !.row = df[1],
                              !.outcome = outcome, !.valid = valid]
    /\ UNCHANGED <<task, email>>

\* format_lat_long returns r: the row, the counter, the locals
Returned(r) ==
    /\ df' = [df EXCEPT ![i + 1] = r.row]
    /\ STATS' = Increment(STATS, r.inc)
    /\ frame' = r.frame
    /\ raised' = r.raised
    /\ outcome' = Append(outcome, Outcome(r))

\* df.apply calls format_lat_long on the next row
ApplyRow ==
    /\ pc = "apply"
    /\ ~raised
    /\ i < Len(df)
    /\ Returned(format_lat_long(df[i + 1], args.output_format, args.split, args.hor_coord))
    /\ i' = i + 1
    /\ UNCHANGED <<pc, args, task, valid, prev, email>>

\* every row is through: report(nrows) and return
Return ==
    /\ pc = "apply"
    /\ ~raised
    /\ i = Len(df)
    /\ pc' = "done"
    /\ UNCHANGED <<args, df, STATS, i, frame, raised, outcome, task, valid, prev, email>>

\* validate_lat_long(df[column], hor_coord)
validate_lat_long ==
    /\ pc = "done"
    /\ valid = <<>>
    /\ valid' = [j \in 1..Len(df) |-> check_lat_long(df[j].col, args.hor_coord)]
    /\ UNCHANGED <<pc, args, df, STATS, i, frame, raised, outcome, task, prev, email>>

\* clean_email(df, column, split, error=error) on a frame of one row
clean_email ==
    /\ pc \in {"idle", "email"}
    /\ \E v \in EmailInputs, split \in BOOLEAN, error \in Policies :
         LET r == format_email(NewEmailRow(v), split, error)
         IN  email' = [error |-> error, split |-> split, row |-> r.row,
                       STATS |-> Increment(reset_stats, r.inc)]
    /\ pc' = "email"
    /\ UNCHANGED <<args, df, STATS, i, frame, raised, outcome, task, valid, prev>>

Next ==
    \/ clean_lat_long
    \/ CleanAgain
    \/ OtherAxis
    \/ ApplyRow
    \/ Return
    \/ validate_lat_long
    \/ clean_email

Spec == Init /\ [][Next]_vars

\* ------------------------------------------------------------------------
\* df.apply on a dask frame of several partitions: dask.compute runs
\* format_lat_long on up to Workers rows at a time, and STATS[errtype] += 1
\* is a read of the counter followed by a write
\* ------------------------------------------------------------------------
ParArgs == {a \in Args : a.output_format = "dd"}
Todo == [st |-> "todo", inc |-> "none", tmp |-> 0, out |-> "none"]
Loaded == {j \in 1..Len(task) : task[j].st = "loaded"}

\* clean_lat_long is called on a frame of one partition per row
ComputeParallel ==
    /\ pc = "idle"
    /\ \E a \in ParArgs, d \in SampleFrames : Call(a, d) /\ task' = [j \in 1..Len(d) |-> Todo]
    /\ pc' = "par"
    /\ UNCHANGED <<prev, email>>

\* format_lat_long on row j is at STATS[errtype] += 1 with the result r, or
\* returns r without an increment
Read(j, r) ==
    /\ df' = [df EXCEPT ![j] = r.row]
    /\ frame' = r.frame
    /\ raised' = (raised \/ r.raised)
    /\ task' = [task EXCEPT ![j] =
                  [st |-> IF r.inc = "none" THEN "done" ELSE "loaded", inc |-> r.inc,
                   tmp |-> IF r.inc = "none" THEN 0 ELSE STATS[r.inc],
                   out |-> Outcome(r)]]

\* a worker runs format_lat_long on row j up to the read of STATS[errtype]
LoadCounter(j) ==
    /\ pc = "par"
    /\ task[j].st = "todo"
    /\ Cardinality(Loaded) < Workers
    /\ Read(j, format_lat_long(df[j], args.output_format, args.split, args.hor_coord))
    /\ UNCHANGED <<pc, args, STATS, i, outcome, valid, prev, email>>

\* the worker of row j writes the counter back and returns the row
StoreCounter(j) ==
    /\ pc = "par"
    /\ task[j].st = "loaded"
    /\ STATS' = [STATS EXCEPT ![task[j].inc] = task[j].tmp + 1]
    /\ task' = [task EXCEPT ![j].st = "done"]
    /\ UNCHANGED <<pc, args, df, i, frame, raised, outcome, valid, prev, email>>

\* every worker is through: report(nrows) and return
ReturnParallel ==
    /\ pc = "par"
    /\ \A j \in 1..Len(task) : task[j].st = "done"
    /\ pc' = "done"
    /\ i' = Len(df)
    /\ UNCHANGED <<args, df, STATS, frame, raised, outcome, task, valid, prev, email>>

NextPar ==
    \/ ComputeParallel
    \/ \E j \in 1..Len(task) : LoadCounter(j)
    \/ \E j \in 1..Len(task) : StoreCounter(j)
    \/ ReturnParallel

SpecPar == Init /\ [][NextPar]_vars

\* ------------------------------------------------------------------------
\* Properties
\* ------------------------------------------------------------------------
\* df.apply has gone through row i, and frame holds the locals of that call
Applied == pc \in {"apply", "done"} /\ i >= 1
NewYork == <<"4", "0", ".", "7", "1", "2", "8", " ", "N", ",", " ",
             "7", "4", ".", "0", "0", "6", "0", " ", "W">>
\* the latitude and the longitude that a row of a pair holds
LatOf(row) == IF args.split THEN row.latitude ELSE row.clean.a
LongOf(row) == IF args.split THEN row.longitude ELSE row.clean.b
BareDecimals == DegreeTexts \cup {<<"-">> \o d : d \in DegreeTexts}

\* C1: in "dd" format an accepted coordinate is its magnitude rounded to
\* four decimals, negative exactly in the hemispheres S and W, for a single
\* coordinate as for both components of a pair; a bare decimal d within the
\* axis bound is cleaned to round(d, 4); "40.7128 N, 74.0060 W" gives the
\* latitude 40.7128 and the longitude -74.006.
C1_DecimalDegrees ==
    (Applied /\ args.output_format = "dd" /\ outcome[i] = "Cleaned") =>
        /\ frame.flow = "single" =>
              df[i].clean = round4(IF frame.hem \in {S, W} THEN -1 ELSE 1, frame.dds)
        /\ frame.flow = "pair" =>
              /\ LatOf(df[i]) = round4(IF frame.hem \in {S, W} THEN -1 ELSE 1, frame.dds)
              /\ LongOf(df[i]) = round4(IF frame.hem2 \in {S, W} THEN -1 ELSE 1, frame.dds2)
        /\ (df[i].col.t = "str" /\ df[i].col.s \in BareDecimals) =>
              LET d == df[i].col.s
                  expected == IF d[1] = "-" THEN round4(-1, float(Tail(d)))
                              ELSE round4(1, float(d))
              IN  df[i].clean.t = "float" /\ FloatEq(df[i].clean, expected)
        /\ df[i].col.t = "float" => PyEq(df[i].clean, df[i].col)
        /\ df[i].col = Str(NewYork) =>
              /\ LatOf(df[i]) = Float4(FALSE, 407128)
              /\ LongOf(df[i]) = Float4(TRUE, 740060)
C1_Witness ==
    /\ Applied /\ args.output_format = "dd" /\ args.split /\ outcome[i] = "Cleaned"
    /\ df[i].col = Str(NewYork)
    /\ df[i].longitude = Float4(TRUE, 740060)

\* the signed decimal degrees of a magnitude in a hemisphere
Signed(dds, hem) == IF hem \in {S, W} THEN Neg(dds) ELSE dds
Tolerance == [w |-> 0, f |-> Unit \div 10000]
Within(x, y, tol) == Le(Abs(Add(x, Neg(y))), tol)

\* C2: the "dms" rendering of an accepted coordinate is accepted when it is
\* cleaned again with the same arguments, and the decimal degrees read from
\* it are within 0.0001 of the decimal degrees it was rendered from.
C2_RoundTrip ==
    (Applied /\ prev.again /\ args.output_format = "dms") =>
        /\ outcome[i] = "Cleaned"
        /\ frame.flow = prev.frame.flow
        /\ Within(Signed(frame.dds, frame.hem),
                  Signed(prev.frame.dds, prev.frame.hem), Tolerance)
        /\ frame.flow = "pair" =>
              Within(Signed(frame.dds2, frame.hem2),
                     Signed(prev.frame.dds2, prev.frame.hem2), Tolerance)

\* C3: a value that cleaning in "dd" format made (a float, or the tuple of
\* an unsplit pair) is accepted when it is cleaned again with the same
\* format and axis, and the second cleaning returns a value equal to it.
C3_Idempotent ==
    (Applied /\ prev.again /\ args.output_format = "dd") =>
        /\ outcome[i] = "Cleaned"
        /\ PyEq(df[i].clean, prev.out)
C3_Witness ==
    /\ Applied /\ prev.again /\ args.output_format = "dd"
    /\ prev.out = Tuple(Float4(FALSE, 407128), Float4(TRUE, 740060))
    /\ df[i].clean = prev.out

\* the hemispheres and the bound of the axis of a single coordinate
AxisLetters == IF args.hor_coord = "lat" THEN {N, S} ELSE {E, W}
AxisMax == IF args.hor_coord = "lat" THEN 90 ELSE 180
\* row j is rejected, or accepted, by clean_lat_long and by validate_lat_long
Rejected(j) == outcome[j] = "Unparseable" /\ (valid # <<>> => ~valid[j])
Accepted(j) == outcome[j] = "Cleaned" /\ (valid # <<>> => valid[j])

\* C4: a single coordinate is accepted under "lat" only in the hemispheres
\* N and S with a magnitude of at most 90, and under "long" only in E and W
\* with at most 180; "90 N" and "180 E" are accepted, "90.0001 N" and
\* "180.0001 E" are not; what breaks the rule is NaN for clean_lat_long and
\* False for validate_lat_long.
C4_AxisBounds ==
    (Applied /\ frame.flow = "single") =>
        /\ outcome[i] = "Cleaned" =>
              frame.hem \in AxisLetters /\ Le(frame.dds, Whole(AxisMax))
        /\ (\/ frame.hem # None /\ frame.hem \notin AxisLetters
            \/ Lt(Whole(AxisMax), Abs(frame.dds))) => Rejected(i)
        /\ (df[i].col = Str(<<"9", "0", " ", "N">>) /\ args.hor_coord = "lat") => Accepted(i)
        /\ (df[i].col = Str(<<"1", "8", "0", " ", "E">>) /\ args.hor_coord = "long") => Accepted(i)
        /\ (df[i].col = Str(<<"9", "0", ".", "0", "0", "0", "1", " ", "N">>)
              /\ args.hor_coord = "lat") => Rejected(i)
        /\ (df[i].col = Str(<<"1", "8", "0", ".", "0", "0", "0", "1", " ", "E">>)
              /\ args.hor_coord = "long") => Rejected(i)
C4_Witness ==
    /\ Applied /\ frame.flow = "single" /\ args.hor_coord = "lat"
    /\ df[i].col = Str(<<"9", "0", ".", "0", "0", "0", "1", " ", "N">>)
    /\ outcome[i] = "Unparseable" /\ valid = <<FALSE>>

\* a group has a letter before and after it, or a letter and a negative degree
GroupConflict(dir_front, dir_back, deg) ==
    \/ dir_front # None /\ dir_back # None
    \/ (dir_front # None \/ dir_back # None) /\ deg # None /\ Lt(float(deg), Whole(0))

\* C5: a single coordinate or a pair is rejected by clean_lat_long and by
\* validate_lat_long when one of its groups has a hemisphere letter before
\* and after the coordinate, or a hemisphere letter with a negative degree;
\* "40 N 30 S" is rejected.
C5_HemisphereConflict ==
    (Applied /\ frame.flow \in {"single", "pair"}) =>
        /\ GroupConflict(frame.mch.dir_front, frame.mch.dir_back, frame.mch.deg) => Rejected(i)
        /\ GroupConflict(frame.mch.dir_front2, frame.mch.dir_back2, frame.mch.deg2) => Rejected(i)
        /\ df[i].col = Str(<<"4", "0", " ", "N", " ", "3", "0", " ", "S">>) => Rejected(i)
C5_Witness ==
    /\ Applied /\ frame.flow = "pair"
    /\ frame.mch.dir_front2 # None /\ frame.mch.dir_back2 # None
    /\ outcome[i] = "Unparseable" /\ valid # <<>> /\ ~valid[i]

\* the null values: the texts of the set, and a NaN
IsNullValue(v) == (v.t = "str" /\ v.s \in NullStrings) \/ v.t = "nan"
Count(name) == Cardinality({j \in 1..i : outcome[j] = name})

\* C6: a null value (one of the listed texts, or a numeric NaN) is Null
\* before PATTERN is matched: the row gets NaN in its output column(s), the
\* counter "null" goes up by one and "unknown" and "cleaned" do not, and
\* validate_lat_long returns False.
C6_NullShortCircuit ==
    (Applied /\ IsNullValue(df[i].col)) =>
        /\ outcome[i] = "Null"
        /\ frame.flow = "null"
        /\ IF args.split THEN df[i].latitude = np_nan /\ df[i].longitude = np_nan
           ELSE df[i].clean = np_nan
        /\ STATS.null = Count("Null")
        /\ STATS.unknown = Count("Unparseable")
        /\ STATS.cleaned <= Count("Cleaned")
        /\ valid # <<>> => ~valid[i]

\* the output columns of a row of clean_lat_long all hold v
Written(row, v) ==
    IF args.split THEN row.latitude = v /\ row.longitude = v ELSE row.clean = v

C8_NoLostIncrement ==
    (pc = "done" /\ task # <<>>) =>
        /\ STATS.null = Cardinality({j \in 1..Len(task) : task[j].out = "Null"})
        /\ STATS.unknown = Cardinality({j \in 1..Len(task) : task[j].out = "Unparseable"})

\* C9: with split the outcome of a row is in "latitude" and "longitude" and
\* not in the clean column; without split it is in the clean column only.
C9_SplitColumns ==
    Applied =>
        IF args.split
        THEN df[i].latitude # Absent /\ df[i].longitude # Absent /\ df[i].clean = Absent
        ELSE df[i].clean # Absent /\ df[i].latitude = Absent /\ df[i].longitude = Absent

\* the row holds a coordinate in one of its output columns
HasCoordinate(row) ==
    \E v \in {row.clean, row.latitude, row.longitude} : v.t \in {"float", "str", "tuple"}

\* C10: for every value, format, split and axis a call of format_lat_long
\* raises nothing and ends in one of Cleaned, Null and Unparseable (a
\* coordinate in the row for Cleaned, NaN for the other two); no row stops
\* df.apply, which goes through every row before the call returns.
C10_OneOutcome ==
    /\ ~raised
    /\ pc \in {"apply", "done"} =>
          /\ Len(outcome) = i
          /\ \A j \in 1..i :
                /\ outcome[j] \in {"Cleaned", "Null", "Unparseable"}
                /\ outcome[j] = "Cleaned" <=> HasCoordinate(df[j])
                /\ outcome[j] # "Cleaned" => Written(df[j], np_nan)
    /\ pc = "done" => i = Len(df)
C10_Witness ==
    /\ pc = "done" /\ Len(df) = 2
    /\ outcome = <<"Unparseable", "Cleaned">>
    /\ df[1].clean = np_nan /\ df[2].clean.t = "float"
\* |d| + m / 60 + s / 3600 of the texts that a group captured
Magnitude(deg, min, sec) ==
    Add(Add(Abs(float(deg)),
            Div60(IF min # None THEN float(min) ELSE Whole(0))),
        Div3600(IF sec # None THEN float(sec) ELSE Whole(0)))
\* the raw degrees of a group are negative
NegativeDegrees(deg) == Lt(float(deg), Whole(0))

\* C11: the magnitude of an accepted group, which is bound-checked and
\* rendered, is |d| + m/60 + s/3600 of its raw degrees, minutes and seconds,
\* and a group without a hemisphere letter is in the southern or western
\* hemisphere exactly when d is negative; "-40 30" has the magnitude 40.5 in
\* the southern hemisphere.
C11_Magnitude ==
    (Applied /\ outcome[i] = "Cleaned" /\ frame.flow \in {"single", "pair"}) =>
        /\ frame.dds = Magnitude(frame.mch.deg, frame.mch.min, frame.mch.sec)
        /\ (frame.mch.dir_front = None /\ frame.mch.dir_back = None) =>
              (frame.hem \in {S, W} <=> NegativeDegrees(frame.mch.deg))
        /\ frame.flow = "pair" =>
              /\ frame.dds2 = Magnitude(frame.mch.deg2, frame.mch.min2, frame.mch.sec2)
              /\ (frame.mch.dir_front2 = None /\ frame.mch.dir_back2 = None) =>
                    (frame.hem2 \in {S, W} <=> NegativeDegrees(frame.mch.deg2))
        /\ df[i].col = Str(<<"-", "4", "0", " ", "3", "0">>) =>
              frame.dds = [w |-> 40, f |-> Unit \div 2] /\ frame.hem \in {S, W}
\* the hemisphere letter that a group carries, None without one
GivenHem(dir_front, dir_back) == IF dir_back # None THEN dir_back ELSE dir_front

\* C12: a pair is accepted only with the first group in the hemisphere N or
\* S (given or inferred) and a magnitude of at most 90, and the second group
\* in E or W and at most 180; a pair whose first group carries E or W, or
\* whose second group carries N or S, is Unparseable for clean_lat_long and
\* False for validate_lat_long.
C12_PairBounds ==
    (Applied /\ frame.flow = "pair") =>
        /\ outcome[i] = "Cleaned" =>
              /\ frame.hem \in {N, S} /\ Le(frame.dds, Whole(90))
              /\ frame.hem2 \in {E, W} /\ Le(frame.dds2, Whole(180))
        /\ GivenHem(frame.mch.dir_front, frame.mch.dir_back) \in {E, W} => Rejected(i)
        /\ GivenHem(frame.mch.dir_front2, frame.mch.dir_back2) \in {N, S} => Rejected(i)
        /\ outcome[i] \in {"Cleaned", "Unparseable"}
C12_Witness ==
    /\ Applied /\ frame.flow = "pair" /\ outcome[i] = "Cleaned"
    /\ frame.mch.dir_front2 = None /\ frame.mch.dir_back2 = None
    /\ frame.dds2 = Whole(180) /\ frame.hem2 = E
    /\ valid = <<TRUE>>
\* deg + min / 60 + sec / 3600 of the texts that a group captured is negative
NegativeValue(deg, min, sec) ==
    Lt(Add(Add(float(deg), Div60(IF min # None THEN float(min) ELSE Whole(0))),
           Div3600(IF sec # None THEN float(sec) ELSE Whole(0))),
       Whole(0))

\* C13: an accepted single coordinate without a hemisphere letter gets its
\* hemisphere from the axis and the sign of its value: under "lat" N when
\* the value is >= 0 and S when it is negative, under "long" E and W;
\* "-40.7128" under "lat" is "40.7128<degree> S" in "ddh" format.
C13_InferredHemisphere ==
    (/\ Applied /\ frame.flow = "single" /\ outcome[i] = "Cleaned"
     /\ frame.mch.dir_front = None /\ frame.mch.dir_back = None) =>
        /\ frame.hem =
              (IF NegativeValue(frame.mch.deg, frame.mch.min, frame.mch.sec)
               THEN (IF args.hor_coord = "lat" THEN S ELSE W)
               ELSE (IF args.hor_coord = "lat" THEN N ELSE E))
        /\ (/\ df[i].col = Str(<<"-", "4", "0", ".", "7", "1", "2", "8">>)
            /\ args.hor_coord = "lat" /\ args.output_format = "ddh") =>
              df[i].clean = Str(<<"4", "0", ".", "7", "1", "2", "8", DEGREE, " ", "S">>)
C13_Witness ==
    /\ Applied /\ frame.flow = "single" /\ outcome[i] = "Cleaned"
    /\ args.hor_coord = "lat" /\ args.output_format = "ddh"
    /\ df[i].col = Str(<<"-", "4", "0", ".", "7", "1", "2", "8">>)
    /\ frame.hem = S
    /\ df[i].clean = Str(<<"4", "0", ".", "7", "1", "2", "8", DEGREE, " ", "S">>)
\* a captured minutes or seconds text with a value outside [0, 60)
OutOfRange(text) ==
    text # None /\ ~(Le(Whole(0), float(text)) /\ Lt(float(text), Whole(60)))

\* C14: a single coordinate or a pair is rejected by clean_lat_long and by
\* validate_lat_long when the minutes or the seconds of one of its groups
\* are outside [0, 60): every accepted input has all its captured minutes
\* and seconds in [0, 60).
C14_MinSecRange ==
    (Applied /\ frame.flow \in {"single", "pair"}) =>
        /\ (\/ OutOfRange(frame.mch.min) \/ OutOfRange(frame.mch.sec)
            \/ OutOfRange(frame.mch.min2) \/ OutOfRange(frame.mch.sec2)) => Rejected(i)
        /\ outcome[i] = "Cleaned" =>
              \A t \in {frame.mch.min, frame.mch.sec, frame.mch.min2, frame.mch.sec2} :
                  ~OutOfRange(t)
C14_Witness ==
    /\ Applied /\ frame.flow = "pair" /\ outcome[i] = "Unparseable"
    /\ frame.mch.min = None /\ frame.mch.deg2 = <<"7", "4">>
    /\ frame.mch.min2 = <<"3", "0">> /\ frame.mch.sec2 = <<"6", "0">>
    /\ valid = <<FALSE>>
\* two coordinate units with one delimiter between them
DelimitedTexts ==
    {a \o d \o b :
       a \in {<<"4", "0", ".", "7", "1", "2", "8", " ", "N">>, <<"4", "0", ".", "7", "1", "2", "8">>},
       d \in DelimiterTexts,
       b \in {<<"7", "4", ".", "0", "0", "6", "0", " ", "W">>, <<"7", "4", ".", "0", "0", "6", "0">>}}

\* C15: two coordinate units with a comma, a semicolon, a slash or a blank
\* between them are captured as a pair, the first unit as the first group
\* and the second as the second group; so is "40.7128 74.0060".
C15_DelimitedPair ==
    (Applied /\ df[i].col.t = "str" /\ df[i].col.s \in DelimitedTexts) =>
        /\ frame.flow = "pair"
        /\ frame.mch.deg = <<"4", "0", ".", "7", "1", "2", "8">>
        /\ frame.mch.deg2 = <<"7", "4", ".", "0", "0", "6", "0">>
        /\ frame.mch.min = None /\ frame.mch.min2 = None
\* C16: the outcome of a value that is captured as a pair does not depend on
\* the axis: clean_lat_long with "lat" and with "long" (and the same format
\* and split) return the same row with the same outcome, and
\* validate_lat_long returns the same with both.
C16_AxisIndependence ==
    (pc = "done" /\ prev.axis /\ frame.flow = "pair") =>
        /\ df[1] = prev.row
        /\ outcome = prev.outcome
        /\ frame = prev.frame
        /\ valid # <<>> => valid = prev.valid
C16_Witness ==
    /\ pc = "done" /\ prev.axis /\ frame.flow = "pair"
    /\ args.hor_coord = "long" /\ args.split
    /\ frame.mch.dir_front = None /\ frame.mch.dir_back = None
    /\ frame.mch.dir_front2 = None /\ frame.mch.dir_back2 = None
    /\ outcome = <<"Cleaned">> /\ valid = <<TRUE>>
    /\ df[1].latitude = prev.row.latitude /\ df[1].latitude.t = "str"
\* the output of a cleaned row differs from its input; the latitude and the
\* longitude of a split pair count as different
Changed(row) ==
    IF row.latitude # Absent THEN TRUE ELSE ~PyEq(row.col, row.clean)
Total(stats) == stats.cleaned + stats.null + stats.unknown

\* C17: in a sequence of calls of clean_lat_long, one after the other, the
\* counters are zero when a call starts on its first row and hold the tallies
\* of the rows of that call only: "null" the rows that are Null, "unknown"
\* the rows that are Unparseable, "cleaned" the accepted rows whose output
\* differs from the input (every accepted pair with split); a row adds one
\* to at most one counter, and the sum of the counters is at most the number
\* of rows.
C17_Tallies ==
    /\ [](pc \in {"apply", "done"} =>
            /\ STATS.null = Count("Null")
            /\ STATS.unknown = Count("Unparseable")
            /\ STATS.cleaned =
                 Cardinality({j \in 1..i : outcome[j] = "Cleaned" /\ Changed(df[j])})
            /\ Total(STATS) <= i /\ i <= Len(df))
    /\ [][/\ (pc' = "apply" /\ i' = 0) => STATS' = ZeroStats
          /\ (pc' = "apply" /\ i' = i + 1) =>
                /\ Total(STATS') - Total(STATS) \in {0, 1}
                /\ \A n \in {"cleaned", "null", "unknown"} : STATS'[n] >= STATS[n]
                /\ (outcome'[i'] = "Null") = (STATS'.null = STATS.null + 1)
                /\ (outcome'[i'] = "Unparseable") = (STATS'.unknown = STATS.unknown + 1)]_vars
C17_Witness ==
    /\ pc = "done" /\ prev.axis
    /\ prev.outcome = <<"Unparseable">> /\ outcome = <<"Cleaned">>
    /\ STATS = [cleaned |-> 1, null |-> 0, unknown |-> 0]
\* C18: validate_lat_long and clean_lat_long agree: for every value and axis,
\* with every format and with and without split, check_lat_long returns True
\* exactly when format_lat_long returns the row with a coordinate in it, and
\* False exactly when the row is Null or Unparseable.
C18_ValidateAgrees ==
    (pc = "done" /\ valid # <<>>) =>
        /\ Len(valid) = Len(df)
        /\ \A j \in 1..Len(df) :
              /\ valid[j] <=> (outcome[j] = "Cleaned" /\ HasCoordinate(df[j]))
              /\ ~valid[j] <=> (outcome[j] \in {"Null", "Unparseable"} /\ ~HasCoordinate(df[j]))
C18_Witness ==
    /\ pc = "done" /\ Len(df) = 2
    /\ args.output_format = "dms" /\ args.split
    /\ outcome = <<"Null", "Cleaned">>
    /\ valid = <<FALSE, TRUE>>
    /\ df[2].longitude.t = "str"
====
